---- MODULE Spec2Model ----
(***************************************************************************)
(* Timestamp converter (src/src/App.tsx).                                  *)
(*                                                                         *)
(* Texts are sequences of one-character strings.  Offsets are 0-based, as  *)
(* in the source; Substring converts to the 1-based SubSeq.                *)
(* Numbers that do not fit 32 bits (epoch milliseconds) are kept as their  *)
(* canonical decimal digits, which is also what `${n}` / n.toString()      *)
(* prints for the integers below 1e21 that occur here.                     *)
(***************************************************************************)
EXTENDS Integers, Sequences, FiniteSets, TLC

VARIABLES
    inputText,         \* appState.inputText
    selectedTimezone,  \* appState.selectedTimezone
    replaceTimestamp,  \* appState.replaceTimestamp
    useJavaFormat,     \* appState.useJavaFormat
    hostOffset,        \* UTC offset (minutes) of the runtime's local time zone
    result,            \* last value returned by convertTimestamps
    rerun,             \* convertTimestamps applied to result.text
    oldText,           \* editor.getValue() read by updateOutput
    newText,           \* result.text handed to computeMonacoEdits
    diffs,             \* token sequence returned by the diff primitive
    edits,             \* value returned by computeMonacoEdits
    buffer,            \* text held by the output editor's model
    applyEditsCalls,   \* number of editor.applyEdits calls
    highlightRanges,   \* the highlightRanges state (Monaco ranges)
    pc,                \* position of the driver
    storage,           \* localStorage: whether reads throw, and the item
    loaded,            \* value returned by loadStateFromStorage
    queued,            \* value of the last setAppState not yet rendered
    rangesQueued,      \* setHighlightRanges was called since the last render
    mounted,           \* outputEditorRef.current is set
    decorations,       \* decorationsCollectionRef.current and what it holds
    events             \* number of UI events handled

vars == <<inputText, selectedTimezone, replaceTimestamp, useJavaFormat,
          hostOffset, result, rerun, oldText, newText, diffs, edits, buffer,
          applyEditsCalls, highlightRanges, pc, storage, loaded, queued,
          rangesQueued, mounted, decorations, events>>

\* the state of the component around the two engines
appVars == <<storage, loaded, queued, rangesQueued, mounted, decorations,
             events>>

----------------------------------------------------------------------------
(* Characters and strings *)

Digits == <<"0", "1", "2", "3", "4", "5", "6", "7", "8", "9">>

DigitSet == {Digits[i] : i \in 1..10}

IsDigit(c) == c \in DigitSet

DigitVal(c) == (CHOOSE i \in 1..10 : Digits[i] = c) - 1

Letters == {"a", "b", "x", "T", "Z", "U", "C", "A", "m", "e", "r", "i", "c",
            "h", "g", "o", "E", "u", "p", "s", "t", "d", "n", "l", "M", "S"}

\* mutant: the class taken for "not white space"
IsWordCharOrBlank(c) == IsDigit(c) \/ c \in Letters \/ c = "_" \/ c = " "

\* \w of a JavaScript regular expression without the u flag: [A-Za-z0-9_]
IsWordChar(c) == IsDigit(c) \/ c \in Letters \/ c = "_"

Rep(c, n) == [i \in 1..n |-> c]

Min(a, b) == IF a < b THEN a ELSE b

Max(a, b) == IF a > b THEN a ELSE b

\* String.prototype.substring(from, to): arguments clamped to [0, length]
\* and swapped when from > to.
Substring(s, from, to) ==
    LET f == Max(0, Min(from, Len(s)))
        t == Max(0, Min(to, Len(s)))
    IN  SubSeq(s, Min(f, t) + 1, Max(f, t))

SubstringFrom(s, from) == Substring(s, from, Len(s))

RECURSIVE Flatten(_)
Flatten(ss) == IF ss = <<>> THEN <<>> ELSE Head(ss) \o Flatten(Tail(ss))

----------------------------------------------------------------------------
(* Numbers: parseInt, multiplication by 1000, toString *)

RECURSIVE StripZeros(_)
StripZeros(ds) ==
    IF Len(ds) > 1 /\ Head(ds) = "0" THEN StripZeros(Tail(ds)) ELSE ds

\* parseInt(match) of an all-digit string: the number, as canonical digits
ParseInt(ds) == StripZeros(ds)

\* n * 1000
Times1000(n) == IF n = <<"0">> THEN n ELSE n \o <<"0", "0", "0">>

\* `${timestamp}` and timestamp.toString()
NumToString(n) == n

MsPerDay == 86400000

MsPerMinute == 60000

\* Long division of the digits by MsPerDay: <<days, ms of the day>>
RECURSIVE DivDay(_, _, _)
DivDay(ds, q, r) ==
    IF ds = <<>> THEN <<q, r>>
    ELSE LET v == r * 10 + DigitVal(Head(ds))
         IN  DivDay(Tail(ds), q * 10 + v \div MsPerDay, v % MsPerDay)

----------------------------------------------------------------------------
(* Dates: new Date(ms), getTime, getFullYear and the local calendar fields *)

\* !isNaN(new Date(timestamp).getTime()): a time value is a date up to
\* 8.64e15 ms; the numbers parsed here have at most 13 digits.
IsValidDate(n) == Len(n) <= 15

\* Days since 1970-01-01 and the millisecond of the day, in the local zone
\* of the runtime (offset in minutes east of UTC).
LocalDayMs(n, offset) ==
    LET dm == DivDay(n, 0, 0)
        ms == dm[2] + offset * MsPerMinute
    IN  IF ms < 0 THEN <<dm[1] - 1, ms + MsPerDay>>
        ELSE IF ms >= MsPerDay THEN <<dm[1] + 1, ms - MsPerDay>>
        ELSE <<dm[1], ms>>

\* Proleptic Gregorian calendar date of a day number: [year, month, day]
CivilFromDays(days) ==
    LET z   == days + 719468
        era == z \div 146097
        doe == z - era * 146097
        yoe == (doe - doe \div 1460 + doe \div 36524 - doe \div 146096) \div 365
        doy == doe - (365 * yoe + yoe \div 4 - yoe \div 100)
        mp  == (5 * doy + 2) \div 153
        d   == doy - (153 * mp + 2) \div 5 + 1
        m   == IF mp < 10 THEN mp + 3 ELSE mp - 9
        y   == yoe + era * 400 + (IF m <= 2 THEN 1 ELSE 0)
    IN  [year |-> y, month |-> m, day |-> d]

\* date.getFullYear(): the year in the runtime's local zone
GetFullYear(n, offset) == CivilFromDays(LocalDayMs(n, offset)[1]).year

MinYear == 1975

MaxYear == 2050

Pad2(k) == <<Digits[((k \div 10) % 10) + 1], Digits[(k % 10) + 1]>>

Pad4(k) == Pad2(k \div 100) \o Pad2(k % 100)

----------------------------------------------------------------------------
(* date-fns-tz format(date, pattern, {timeZone}) *)

SUPPORTED_TIMEZONES == <<"UTC", "America/Chicago", "Europe/Amsterdam">>

TimezoneChars(tz) ==
    CASE tz = "UTC" -> <<"U", "T", "C">>
      [] tz = "America/Chicago" ->
            <<"A", "m", "e", "r", "i", "c", "a", "/",
              "C", "h", "i", "c", "a", "g", "o">>
      [] tz = "Europe/Amsterdam" ->
            <<"E", "u", "r", "o", "p", "e", "/",
              "A", "m", "s", "t", "e", "r", "d", "a", "m">>

\* The XXX token: the zone's UTC offset as +hh:mm / -hh:mm, "Z" for zero.
\* Daylight saving time is taken by calendar month (April to October).
ZoneOffsetToken(tz, month) ==
    LET dst == month >= 4 /\ month <= 10
    IN  CASE tz = "UTC" -> <<"Z">>
          [] tz = "America/Chicago" ->
                IF dst THEN <<"-", "0", "5", ":", "0", "0">>
                       ELSE <<"-", "0", "6", ":", "0", "0">>
          [] tz = "Europe/Amsterdam" ->
                IF dst THEN <<"+", "0", "2", ":", "0", "0">>
                       ELSE <<"+", "0", "1", ":", "0", "0">>

\* yyyy-MM-dd<sep>HH:mm:ssXXX : the calendar fields are those of the Date
\* in the runtime's local zone, the offset token is that of timeZone.
FormatFields(n, offset, tz, sep) ==
    LET dm  == LocalDayMs(n, offset)
        c   == CivilFromDays(dm[1])
        sec == dm[2] \div 1000
    IN  Pad4(c.year) \o <<"-">> \o Pad2(c.month) \o <<"-">> \o Pad2(c.day)
        \o sep
        \o Pad2(sec \div 3600) \o <<":">> \o Pad2((sec \div 60) % 60)
        \o <<":">> \o Pad2(sec % 60)
        \o ZoneOffsetToken(tz, c.month)

\* formatTimestamp: format(date, "yyyy-MM-dd HH:mm:ssXXX", {timeZone})
formatTimestamp(n, offset, tz) == FormatFields(n, offset, tz, <<" ">>)

\* format(date, "yyyy-MM-dd'T'HH:mm:ssXXX['" + tz + "']", {timeZone})
formatJava(n, offset, tz) ==
    FormatFields(n, offset, tz, <<"T">>) \o <<"[">> \o TimezoneChars(tz) \o <<"]">>

----------------------------------------------------------------------------
(* convertTimestamp *)

\* mutant: only the bracketed date is returned when nothing is replaced
convertTimestampDateOnly(timestamp, cfg) ==
    IF /\ IsValidDate(timestamp)
       /\ GetFullYear(timestamp, cfg.host) >= MinYear
       /\ GetFullYear(timestamp, cfg.host) <= MaxYear
    THEN LET formattedDate ==
                 IF cfg.java THEN formatJava(timestamp, cfg.host, cfg.tz)
                 ELSE formatTimestamp(timestamp, cfg.host, cfg.tz)
         IN  IF cfg.replace THEN formattedDate
             ELSE <<"[">> \o formattedDate \o <<"]">>
    ELSE NumToString(timestamp)

\* cfg: [tz, replace, java, host]; timestamp: a number (canonical digits)
convertTimestamp(timestamp, cfg) ==
    IF /\ IsValidDate(timestamp)
       /\ GetFullYear(timestamp, cfg.host) >= MinYear
       /\ GetFullYear(timestamp, cfg.host) <= MaxYear
    THEN LET formattedDate ==
                 IF cfg.java THEN formatJava(timestamp, cfg.host, cfg.tz)
                 ELSE formatTimestamp(timestamp, cfg.host, cfg.tz)
         IN  IF cfg.replace THEN formattedDate
             ELSE NumToString(timestamp) \o <<" ", "[">> \o formattedDate \o <<"]">>
    ELSE NumToString(timestamp)

----------------------------------------------------------------------------
(* convertTimestamps *)

\* \b at offset p: exactly one of the characters before and after p is \w
IsWordBoundary(text, p) ==
    (p > 0 /\ IsWordChar(text[p])) # (p < Len(text) /\ IsWordChar(text[p + 1]))

\* mutant: the closing \b left out
MatchesAtNoEndBoundary(text, n, p) ==
    /\ p + n <= Len(text)
    /\ IsWordBoundary(text, p)
    /\ \A i \in 1..n : IsDigit(text[p + i])

\* mutant: the opening \b left out
MatchesAtNoStartBoundary(text, n, p) ==
    /\ p + n <= Len(text)
    /\ \A i \in 1..n : IsDigit(text[p + i])
    /\ IsWordBoundary(text, p + n)

\* /(\b\d{n}\b)/ matches at offset p
MatchesAt(text, n, p) ==
    /\ p + n <= Len(text)
    /\ IsWordBoundary(text, p)
    /\ \A i \in 1..n : IsDigit(text[p + i])
    /\ IsWordBoundary(text, p + n)

\* addMatches: the exec loop of a global regular expression, from lastIndex:
\* exec finds the leftmost match at or after lastIndex and moves lastIndex
\* to its end; processor is "ms" (13 digits) or "s" (10 digits)
RECURSIVE addMatches(_, _, _, _)
addMatches(text, n, processor, lastIndex) ==
    LET found == {p \in lastIndex..Len(text) : MatchesAt(text, n, p)}
    IN  IF found = {} THEN <<>>
        ELSE LET index == CHOOSE p \in found : \A q \in found : p <= q
             IN  <<[index |-> index,
                    match |-> Substring(text, index, index + n),
                    processor |-> processor]>>
                 \o addMatches(text, n, processor, index + n)

MsDigits == 13

SecDigits == 10

\* the two processors handed to addMatches
Process(m, cfg) ==
    IF m.processor = "ms"
    THEN convertTimestamp(ParseInt(m.match), cfg)
    ELSE convertTimestamp(Times1000(ParseInt(m.match)), cfg)

\* _.orderBy(matches, ["index"], ["asc"]): a stable sort
RECURSIVE InsertByIndex(_, _)
InsertByIndex(sorted, m) ==
    IF sorted = <<>> THEN <<m>>
    ELSE IF Head(sorted).index <= m.index
         THEN <<Head(sorted)>> \o InsertByIndex(Tail(sorted), m)
         ELSE <<m>> \o sorted

\* mutant: the matches left in discovery order
orderByDiscovery(ms) == ms

RECURSIVE orderBy(_)
orderBy(ms) ==
    IF ms = <<>> THEN <<>>
    ELSE InsertByIndex(orderBy(SubSeq(ms, 1, Len(ms) - 1)), ms[Len(ms)])

\* mutant: the running offset is never advanced
RECURSIVE ConvertLoopNoOffset(_, _, _, _, _, _)
ConvertLoopNoOffset(sortedMatches, i, res, processedRanges, offset, cfg) ==
    IF i > Len(sortedMatches)
    THEN [text |-> res, ranges |-> processedRanges]
    ELSE LET index     == sortedMatches[i].index
             matchText == sortedMatches[i].match
             converted == Process(sortedMatches[i], cfg)
         IN  IF converted # matchText
             THEN ConvertLoopNoOffset(sortedMatches, i + 1,
                      Substring(res, 0, index + offset) \o converted
                        \o SubstringFrom(res, index + Len(matchText) + offset),
                      Append(processedRanges,
                             [start |-> index + offset,
                              end   |-> index + Len(converted) + offset]),
                      offset, cfg)
             ELSE ConvertLoopNoOffset(sortedMatches, i + 1, res,
                                      processedRanges, offset, cfg)

\* mutant: the tail is taken after the length of the converted text
RECURSIVE ConvertLoopTailAfterConverted(_, _, _, _, _, _)
ConvertLoopTailAfterConverted(sortedMatches, i, res, processedRanges, offset, cfg) ==
    IF i > Len(sortedMatches)
    THEN [text |-> res, ranges |-> processedRanges]
    ELSE LET index     == sortedMatches[i].index
             matchText == sortedMatches[i].match
             converted == Process(sortedMatches[i], cfg)
         IN  IF converted # matchText
             THEN ConvertLoopTailAfterConverted(sortedMatches, i + 1,
                      Substring(res, 0, index + offset) \o converted
                        \o SubstringFrom(res, index + Len(converted) + offset),
                      Append(processedRanges,
                             [start |-> index + offset,
                              end   |-> index + Len(converted) + offset]),
                      offset + Len(converted) - Len(matchText), cfg)
             ELSE ConvertLoopTailAfterConverted(sortedMatches, i + 1, res,
                                                processedRanges, offset, cfg)

\* mutant: the loop ends at the first candidate that is left as it is
RECURSIVE ConvertLoopStopsOnFailure(_, _, _, _, _, _)
ConvertLoopStopsOnFailure(sortedMatches, i, res, processedRanges, offset, cfg) ==
    IF i > Len(sortedMatches)
    THEN [text |-> res, ranges |-> processedRanges]
    ELSE LET index     == sortedMatches[i].index
             matchText == sortedMatches[i].match
             converted == Process(sortedMatches[i], cfg)
         IN  IF converted # matchText
             THEN ConvertLoopStopsOnFailure(sortedMatches, i + 1,
                      Substring(res, 0, index + offset) \o converted
                        \o SubstringFrom(res, index + Len(matchText) + offset),
                      Append(processedRanges,
                             [start |-> index + offset,
                              end   |-> index + Len(converted) + offset]),
                      offset + Len(converted) - Len(matchText), cfg)
             ELSE [text |-> res, ranges |-> processedRanges]

\* the for loop over sortedMatches, from position i
RECURSIVE ConvertLoop(_, _, _, _, _, _)
ConvertLoop(sortedMatches, i, res, processedRanges, offset, cfg) ==
    IF i > Len(sortedMatches)
    THEN [text |-> res, ranges |-> processedRanges]
    ELSE LET index     == sortedMatches[i].index
             matchText == sortedMatches[i].match
             converted == Process(sortedMatches[i], cfg)
         IN  IF converted # matchText
             THEN ConvertLoop(sortedMatches, i + 1,
                      Substring(res, 0, index + offset) \o converted
                        \o SubstringFrom(res, index + Len(matchText) + offset),
                      Append(processedRanges,
                             [start |-> index + offset,
                              end   |-> index + Len(converted) + offset]),
                      offset + Len(converted) - Len(matchText), cfg)
             ELSE ConvertLoop(sortedMatches, i + 1, res, processedRanges,
                              offset, cfg)

Matches(text) ==
    addMatches(text, MsDigits, "ms", 0) \o addMatches(text, SecDigits, "s", 0)

convertTimestamps(text, cfg) ==
    IF text = <<>> THEN [text |-> <<>>, ranges |-> <<>>]
    ELSE ConvertLoop(orderBy(Matches(text)), 1, text, <<>>, 0, cfg)

----------------------------------------------------------------------------
(* The editor model: getPositionAt, getOffsetAt, applyEdits *)

\* number of "\n" among the first o characters
CountNewlines(text, o) == Cardinality({i \in 1..o : text[i] = "\n"})

\* offset just after the last "\n" among the first o characters
LineStartBefore(text, o) ==
    LET breaks == {i \in 1..o : text[i] = "\n"}
    IN  IF breaks = {} THEN 0
        ELSE CHOOSE i \in breaks : \A j \in breaks : j <= i

\* model.getPositionAt(offset): the offset is clamped to the text
getPositionAt(text, offset) ==
    LET o == Max(0, Min(offset, Len(text)))
    IN  [lineNumber |-> CountNewlines(text, o) + 1,
         column     |-> o - LineStartBefore(text, o) + 1]

\* offset at which line number ln starts; the end of the text when the
\* text has fewer lines
LineStart(text, ln) ==
    IF ln = 1 THEN 0
    ELSE LET breaks == {i \in 1..Len(text) :
                          text[i] = "\n" /\ CountNewlines(text, i) = ln - 1}
         IN  IF breaks = {} THEN Len(text) ELSE CHOOSE i \in breaks : TRUE

\* model.getOffsetAt(position)
getOffsetAt(text, lineNumber, column) ==
    Min(LineStart(text, lineNumber) + column - 1, Len(text))

\* new monaco.Range(start.lineNumber, start.column, end.lineNumber, end.column)
Range(start, end) ==
    [startLineNumber |-> start.lineNumber, startColumn |-> start.column,
     endLineNumber   |-> end.lineNumber,   endColumn   |-> end.column]

RangeStart(text, r) == getOffsetAt(text, r.startLineNumber, r.startColumn)

RangeEnd(text, r) == getOffsetAt(text, r.endLineNumber, r.endColumn)

\* the buffer's ascending order of operations: by range end, then by range
\* start, then by position in the batch
OpBefore(text, es, k, j) ==
    \/ RangeEnd(text, es[k].range) < RangeEnd(text, es[j].range)
    \/ /\ RangeEnd(text, es[k].range) = RangeEnd(text, es[j].range)
       /\ \/ RangeStart(text, es[k].range) < RangeStart(text, es[j].range)
          \/ /\ RangeStart(text, es[k].range) = RangeStart(text, es[j].range)
             /\ k < j

\* number of operations of the batch ordered before the j-th
OpRank(text, es, j) ==
    Cardinality({ k \in 1..Len(es) : OpBefore(text, es, k, j) })

SortOpsAscending(text, es) ==
    [i \in 1..Len(es) |->
        es[CHOOSE j \in 1..Len(es) : OpRank(text, es, j) = i - 1]]

\* "Overlapping ranges are not allowed!"
HasOverlap(text, sorted) ==
    \E i \in 1..(Len(sorted) - 1) :
        RangeStart(text, sorted[i + 1].range) < RangeEnd(text, sorted[i].range)

\* The sorted, non-overlapping operations applied to the text, every range
\* read against the text before the batch: the text between two ranges is
\* kept, each range gives way to its operation's text.
ApplySorted(text, sorted) ==
    Flatten([i \in 1..(Len(sorted) + 1) |->
                Substring(text,
                          IF i = 1 THEN 0
                          ELSE RangeEnd(text, sorted[i - 1].range),
                          IF i > Len(sorted) THEN Len(text)
                          ELSE RangeStart(text, sorted[i].range))
                \o (IF i > Len(sorted) THEN <<>> ELSE sorted[i].text)])

\* editor.applyEdits(edits): [ok, text]; not ok when the call throws
applyEdits(text, es) ==
    LET sorted == SortOpsAscending(text, es)
    IN  IF HasOverlap(text, sorted) THEN [ok |-> FALSE, text |-> text]
        ELSE [ok |-> TRUE, text |-> ApplySorted(text, sorted)]

----------------------------------------------------------------------------
(* The diff primitive: diff_main followed by diff_cleanupEfficiency *)

DIFF_DELETE == -1

DIFF_INSERT == 1

DIFF_EQUAL == 0

Tok(op, text) == <<op, text>>

\* Every token sequence for (a, b) in the merged form the primitive
\* returns: payloads non-empty, Equal payloads common to both texts, the
\* Equal and Delete payloads spelling a and the Equal and Insert payloads
\* spelling b, no two adjacent Equal tokens, and between two Equal tokens
\* at most one Delete followed by at most one Insert.
\* prev: the operation of the token before, <<op>>, or <<>> for none.
RECURSIVE DiffsFrom(_, _, _)
DiffsFrom(a, b, prev) ==
    LET equals ==
            IF prev = <<DIFF_EQUAL>> THEN {}
            ELSE UNION { { <<Tok(DIFF_EQUAL, SubSeq(a, 1, k))>> \o rest :
                             rest \in DiffsFrom(SubSeq(a, k + 1, Len(a)),
                                                SubSeq(b, k + 1, Len(b)),
                                                <<DIFF_EQUAL>>) } :
                         k \in { j \in 1..Min(Len(a), Len(b)) :
                                   SubSeq(a, 1, j) = SubSeq(b, 1, j) } }
        deletes ==
            IF prev \in {<<DIFF_DELETE>>, <<DIFF_INSERT>>} THEN {}
            ELSE UNION { { <<Tok(DIFF_DELETE, SubSeq(a, 1, k))>> \o rest :
                             rest \in DiffsFrom(SubSeq(a, k + 1, Len(a)), b,
                                                <<DIFF_DELETE>>) } :
                         k \in 1..Len(a) }
        inserts ==
            IF prev = <<DIFF_INSERT>> THEN {}
            ELSE UNION { { <<Tok(DIFF_INSERT, SubSeq(b, 1, k))>> \o rest :
                             rest \in DiffsFrom(a, SubSeq(b, k + 1, Len(b)),
                                                <<DIFF_INSERT>>) } :
                         k \in 1..Len(b) }
    IN  IF a = <<>> /\ b = <<>> THEN {<<>>}
        ELSE equals \cup deletes \cup inserts

\* diff_main(text1, text2): equal texts give one Equal token, or none for
\* the empty text
diff_main(text1, text2) ==
    IF text1 = text2
    THEN {IF text1 = <<>> THEN <<>> ELSE <<Tok(DIFF_EQUAL, text1)>>}
    ELSE DiffsFrom(text1, text2, <<>>)

----------------------------------------------------------------------------
(* computeMonacoEdits *)

\* mutant: an Insert advances the cursor like a Delete
RECURSIVE EditsLoopInsertAdvances(_, _, _, _, _)
EditsLoopInsertAdvances(ds, i, index, es, modelText) ==
    IF i > Len(ds) THEN es
    ELSE LET op   == ds[i][1]
             text == ds[i][2]
         IN  IF op = DIFF_EQUAL
             THEN EditsLoopInsertAdvances(ds, i + 1, index + Len(text), es,
                                          modelText)
             ELSE IF op = DIFF_DELETE
             THEN EditsLoopInsertAdvances(ds, i + 1, index + Len(text),
                      Append(es, [range |-> Range(getPositionAt(modelText, index),
                                                  getPositionAt(modelText, index + Len(text))),
                                  text  |-> <<>>]),
                      modelText)
             ELSE EditsLoopInsertAdvances(ds, i + 1, index + Len(text),
                      Append(es, [range |-> Range(getPositionAt(modelText, index),
                                                  getPositionAt(modelText, index)),
                                  text  |-> text]),
                      modelText)

\* mutant: an Equal token does not advance the cursor
RECURSIVE EditsLoopEqualStays(_, _, _, _, _)
EditsLoopEqualStays(ds, i, index, es, modelText) ==
    IF i > Len(ds) THEN es
    ELSE LET op   == ds[i][1]
             text == ds[i][2]
         IN  IF op = DIFF_EQUAL
             THEN EditsLoopEqualStays(ds, i + 1, index, es, modelText)
             ELSE IF op = DIFF_DELETE
             THEN EditsLoopEqualStays(ds, i + 1, index + Len(text),
                      Append(es, [range |-> Range(getPositionAt(modelText, index),
                                                  getPositionAt(modelText, index + Len(text))),
                                  text  |-> <<>>]),
                      modelText)
             ELSE EditsLoopEqualStays(ds, i + 1, index,
                      Append(es, [range |-> Range(getPositionAt(modelText, index),
                                                  getPositionAt(modelText, index)),
                                  text  |-> text]),
                      modelText)

\* mutant: a Delete does not advance the cursor
RECURSIVE EditsLoopDeleteStays(_, _, _, _, _)
EditsLoopDeleteStays(ds, i, index, es, modelText) ==
    IF i > Len(ds) THEN es
    ELSE LET op   == ds[i][1]
             text == ds[i][2]
         IN  IF op = DIFF_EQUAL
             THEN EditsLoopDeleteStays(ds, i + 1, index + Len(text), es,
                                       modelText)
             ELSE IF op = DIFF_DELETE
             THEN EditsLoopDeleteStays(ds, i + 1, index,
                      Append(es, [range |-> Range(getPositionAt(modelText, index),
                                                  getPositionAt(modelText, index + Len(text))),
                                  text  |-> <<>>]),
                      modelText)
             ELSE EditsLoopDeleteStays(ds, i + 1, index,
                      Append(es, [range |-> Range(getPositionAt(modelText, index),
                                                  getPositionAt(modelText, index)),
                                  text  |-> text]),
                      modelText)

\* the for loop over the diff tokens, from token i with cursor index
RECURSIVE EditsLoop(_, _, _, _, _)
EditsLoop(ds, i, index, es, modelText) ==
    IF i > Len(ds) THEN es
    ELSE LET op   == ds[i][1]
             text == ds[i][2]
         IN  IF op = DIFF_EQUAL
             THEN EditsLoop(ds, i + 1, index + Len(text), es, modelText)
             ELSE IF op = DIFF_DELETE
             THEN EditsLoop(ds, i + 1, index + Len(text),
                      Append(es, [range |-> Range(getPositionAt(modelText, index),
                                                  getPositionAt(modelText, index + Len(text))),
                                  text  |-> <<>>]),
                      modelText)
             ELSE EditsLoop(ds, i + 1, index,
                      Append(es, [range |-> Range(getPositionAt(modelText, index),
                                                  getPositionAt(modelText, index)),
                                  text  |-> text]),
                      modelText)

\* computeMonacoEdits(oldText, newText, model), for the token sequence ds
\* that the diff primitive returned for (oldText, newText); the model holds
\* modelText
computeMonacoEdits(ds, modelText) == EditsLoop(ds, 1, 0, <<>>, modelText)

----------------------------------------------------------------------------
(* Inputs *)

MaxTokens == 3

MaxLen == 3

\* 2023-11-14T22:13:20Z in seconds and in milliseconds
TsSec == <<"1", "7">> \o Rep("0", 8)

TsMs == <<"1", "7">> \o Rep("0", 11)

\* 2286-11-20, past the year range, in seconds and in milliseconds
TsSecLate == Rep("9", 10)

TsMsLate == Rep("9", 13)

\* leading zeros, before the year range: 1970-01-20 in milliseconds
TsMsZeros == Rep("0", 3) \o <<"1", "7">> \o Rep("0", 8)

\* leading zero, in range: 2001-09-09T01:46:39.999Z in milliseconds
TsMsEarly == <<"0">> \o Rep("9", 12)

\* digit runs of other lengths
Run11 == <<"1", "7">> \o Rep("0", 9)

Run14 == <<"1", "7">> \o Rep("0", 12)

Tokens == {TsSec, TsMs, TsSecLate, TsMsLate, TsMsZeros, TsMsEarly,
           Run11, Run14, <<" ">>, <<"x">>}

ScanTexts ==
    { Flatten(ts) : ts \in UNION { [1..n -> Tokens] : n \in 0..MaxTokens } }

\* pieces whose concatenations give digit runs of every length around 10 and 13
RunPieces == {<<"1">>, TsSec, TsMs, Run11, <<" ">>}

RunTexts ==
    { Flatten(ts) : ts \in UNION { [1..n -> RunPieces] : n \in 0..MaxTokens } }

Alphabet == {"a", "b", "\n"}

SmallTexts == UNION { [1..n -> Alphabet] : n \in 0..MaxLen }

\* the runtime is taken to run in UTC
HostOffsets == {0}

Timezones == {SUPPORTED_TIMEZONES[i] : i \in 1..Len(SUPPORTED_TIMEZONES)}

\* the configuration convertTimestamp reads from appState
Cfg == [tz |-> selectedTimezone, replace |-> replaceTimestamp,
        java |-> useJavaFormat, host |-> hostOffset]

NoResult == [text |-> <<>>, ranges |-> <<>>]

----------------------------------------------------------------------------
(* Persistence: the stored item and loadStateFromStorage *)

\* an application state: the four fields of AppState
AppStateOf(text, replace, java, tz) ==
    [inputText |-> text, replaceTimestamp |-> replace, useJavaFormat |-> java,
     selectedTimezone |-> tz]

\* the state returned when nothing usable is stored
DefaultState == AppStateOf(<<>>, FALSE, FALSE, "America/Chicago")

\* A JSON value as JSON.parse returns it: its kind ("object", "null",
\* "number") and, per property of AppState, the typeof of the property
\* ("undefined" when it is missing) and its value when it has the type the
\* property is declared with.
Property(t, v) == [t |-> t, v |-> v]

JsonValue(kind, text, replace, java, tz) ==
    [kind |-> kind, inputText |-> text, replaceTimestamp |-> replace,
     useJavaFormat |-> java, selectedTimezone |-> tz]

\* JSON.parse(JSON.stringify(state)) of an application state
JsonOfState(st) ==
    JsonValue("object", Property("string", st.inputText),
              Property("boolean", st.replaceTimestamp),
              Property("boolean", st.useJavaFormat),
              Property("string", st.selectedTimezone))

\* values without properties: null, a number, {}
JsonBare(kind) ==
    JsonValue(kind, Property("undefined", <<>>), Property("undefined", FALSE),
              Property("undefined", FALSE), Property("undefined", ""))

\* a stored item: absent (getItem returns null), the empty string, a string
\* that is no JSON text, or the JSON text of a value
StoredItem(kind, value) == [kind |-> kind, value |-> value]

\* the value is an AppState: an object whose four properties have their
\* declared types, the time zone one of SUPPORTED_TIMEZONES
IsAppState(v) ==
    /\ v.kind = "object"
    /\ v.inputText.t = "string"
    /\ v.replaceTimestamp.t = "boolean"
    /\ v.useJavaFormat.t = "boolean"
    /\ v.selectedTimezone.t = "string"
    /\ v.selectedTimezone.v \in {SUPPORTED_TIMEZONES[i] : i \in 1..Len(SUPPORTED_TIMEZONES)}

\* loadStateFromStorage: getItem may throw and JSON.parse throws on a
\* string that is no JSON text, both caught; null and "" are falsy; any
\* parsed value is returned as it is
loadStateFromStorage(store) ==
    IF store.readThrows THEN JsonOfState(DefaultState)
    ELSE IF store.item.kind \in {"absent", "empty"}
    THEN JsonOfState(DefaultState)
    ELSE IF store.item.kind = "malformed"
    THEN JsonOfState(DefaultState)
    ELSE store.item.value

\* no pending setAppState
NoUpdate == [set |-> FALSE, state |-> DefaultState]

\* decorationsCollectionRef.current is null
NoDecorations == [created |-> FALSE, moved |-> FALSE, ranges |-> <<>>]

\* an empty store
NoStore == [readThrows |-> FALSE,
            item |-> StoredItem("absent", JsonOfState(DefaultState))]

\* the component's state where only the engines are exercised
AppUnused ==
    /\ storage = NoStore
    /\ loaded = JsonOfState(DefaultState)
    /\ queued = NoUpdate
    /\ rangesQueued = FALSE
    /\ mounted = FALSE
    /\ decorations = NoDecorations
    /\ events = 0

----------------------------------------------------------------------------
(* SpecScan: convertTimestamps on bounded texts, under every configuration *)

InitScan ==
    /\ inputText \in ScanTexts
    /\ selectedTimezone \in Timezones
    /\ replaceTimestamp \in BOOLEAN
    /\ useJavaFormat \in BOOLEAN
    /\ hostOffset \in HostOffsets
    /\ result = NoResult
    /\ rerun = NoResult
    /\ oldText = <<>>
    /\ newText = <<>>
    /\ diffs = <<>>
    /\ edits = <<>>
    /\ buffer = <<>>
    /\ applyEditsCalls = 0
    /\ highlightRanges = <<>>
    /\ pc = "input"
    /\ AppUnused

\* result = convertTimestamps(appState.inputText)
Convert ==
    /\ pc = "input"
    /\ result' = convertTimestamps(inputText, Cfg)
    /\ pc' = "converted"
    /\ UNCHANGED <<inputText, selectedTimezone, replaceTimestamp,
                   useJavaFormat, hostOffset, rerun, oldText, newText, diffs,
                   edits, buffer, applyEditsCalls, highlightRanges, appVars>>

\* convertTimestamps applied to its own output text
Reconvert ==
    /\ pc = "converted"
    /\ rerun' = convertTimestamps(result.text, Cfg)
    /\ pc' = "reconverted"
    /\ UNCHANGED <<inputText, selectedTimezone, replaceTimestamp,
                   useJavaFormat, hostOffset, result, oldText, newText, diffs,
                   edits, buffer, applyEditsCalls, highlightRanges, appVars>>

NextScan == Convert \/ Reconvert

SpecScan == InitScan /\ [][NextScan]_vars

\* SpecRuns: the same scan, on texts made of digit runs of many lengths
InitRuns ==
    /\ inputText \in RunTexts
    /\ selectedTimezone \in Timezones
    /\ replaceTimestamp \in BOOLEAN
    /\ useJavaFormat \in BOOLEAN
    /\ hostOffset \in HostOffsets
    /\ result = NoResult
    /\ rerun = NoResult
    /\ oldText = <<>>
    /\ newText = <<>>
    /\ diffs = <<>>
    /\ edits = <<>>
    /\ buffer = <<>>
    /\ applyEditsCalls = 0
    /\ highlightRanges = <<>>
    /\ pc = "input"
    /\ AppUnused

SpecRuns == InitRuns /\ [][NextScan]_vars

----------------------------------------------------------------------------
(* SpecPatch: updateOutput on a mounted editor whose model holds buffer *)

InitPatch ==
    /\ inputText \in SmallTexts
    /\ selectedTimezone = "America/Chicago"
    /\ replaceTimestamp = FALSE
    /\ useJavaFormat = FALSE
    /\ hostOffset \in HostOffsets
    /\ result = NoResult
    /\ rerun = NoResult
    /\ oldText = <<>>
    /\ newText = <<>>
    /\ diffs = <<>>
    /\ edits = <<>>
    /\ buffer \in SmallTexts
    /\ applyEditsCalls = 0
    /\ highlightRanges = <<>>
    /\ pc = "idle"
    /\ AppUnused

\* result.ranges.map(range => new monaco.Range(...)) against the model text
NewRanges(ranges, modelText) ==
    [i \in 1..Len(ranges) |->
        Range(getPositionAt(modelText, ranges[i].start),
              getPositionAt(modelText, ranges[i].end))]

\* mutant: applyEdits is called whatever the number of edits
UpdateOutputAlwaysApplies(res, ds) ==
    \E es \in {computeMonacoEdits(ds, buffer)} :
    \E ap \in {applyEdits(buffer, es)} :
        /\ result' = res
        /\ oldText' = buffer
        /\ newText' = res.text
        /\ diffs' = ds
        /\ edits' = es
        /\ applyEditsCalls' = applyEditsCalls + 1
        /\ buffer' = ap.text
        /\ highlightRanges' = NewRanges(res.ranges, ap.text)
        /\ pc' = "updated"

\* updateOutput with the editor mounted, after result = convertTimestamps(...)
\* and ds = the diff primitive's answer: compute the edits, apply them when
\* there are any, then map the ranges against the model
UpdateOutputWith(res, ds) ==
    \E es \in {computeMonacoEdits(ds, buffer)} :
    \E ap \in {applyEdits(buffer, es)} :
        /\ result' = res
        /\ oldText' = buffer
        /\ newText' = res.text
        /\ diffs' = ds
        /\ edits' = es
        /\ IF Len(es) > 0
           THEN /\ applyEditsCalls' = applyEditsCalls + 1
                /\ buffer' = ap.text
                /\ IF ap.ok
                   THEN /\ highlightRanges' = NewRanges(res.ranges, ap.text)
                        /\ pc' = "updated"
                   ELSE /\ highlightRanges' = highlightRanges
                        /\ pc' = "threw"
           ELSE /\ applyEditsCalls' = applyEditsCalls
                /\ buffer' = buffer
                /\ highlightRanges' = NewRanges(res.ranges, buffer)
                /\ pc' = "updated"

updateOutput ==
    /\ pc = "idle"
    /\ \E res \in {convertTimestamps(inputText, Cfg)} :
       \E ds \in diff_main(buffer, res.text) :
           UpdateOutputWith(res, ds)
    /\ UNCHANGED <<inputText, selectedTimezone, replaceTimestamp,
                   useJavaFormat, hostOffset, rerun, appVars>>

NextPatch == updateOutput

SpecPatch == InitPatch /\ [][NextPatch]_vars

----------------------------------------------------------------------------
(* Spec: the App component, its handlers, renders and effects *)

\* application states and stored values the runs start from
LoadTexts == {<<>>, TsSec}

StoredStates ==
    {AppStateOf(t, r, j, tz) :
        t \in LoadTexts, r \in BOOLEAN, j \in BOOLEAN, tz \in Timezones}

\* JSON values that are no AppState: null, a number, {}, a time zone that is
\* not supported, an inputText that is a number
OtherValues ==
    {JsonBare("null"), JsonBare("number"), JsonBare("object"),
     [JsonOfState(DefaultState) EXCEPT
          !.selectedTimezone = Property("string", "Europe/Berlin")],
     [JsonOfState(DefaultState) EXCEPT
          !.inputText = Property("number", <<>>)]}

Stores ==
    {[readThrows |-> TRUE, item |-> StoredItem("absent", JsonOfState(DefaultState))]}
    \cup {[readThrows |-> FALSE, item |-> StoredItem(k, JsonOfState(DefaultState))] :
             k \in {"absent", "empty", "malformed"}}
    \cup {[readThrows |-> FALSE, item |-> StoredItem("json", JsonOfState(st))] :
             st \in StoredStates}
    \cup {[readThrows |-> FALSE, item |-> StoredItem("json", v)] :
             v \in OtherValues}

\* texts the input editor reports, and values of Date.now()
TypedTexts == {<<"x">>, TsMs}

Nows == {TsMs}

\* bound on the number of UI events of a run
MaxEvents == 2

\* the application state of a loaded value that is an AppState
StateOfJson(v) ==
    AppStateOf(v.inputText.v, v.replaceTimestamp.v, v.useJavaFormat.v,
               v.selectedTimezone.v)

\* appState as the handlers and effects of the latest render see it
AppState ==
    AppStateOf(inputText, replaceTimestamp, useJavaFormat, selectedTimezone)

\* the configuration convertTimestamp reads from the appState st
CfgOf(st) ==
    [tz |-> st.selectedTimezone, replace |-> st.replaceTimestamp,
     java |-> st.useJavaFormat, host |-> hostOffset]

\* Math.floor(now / 1000)
NowInSeconds(now) == SubSeq(now, 1, Len(now) - 3)

\* the text handleInsertCurrentTimestamp appends
InsertedText(now) ==
    <<"\n", "\n", "C", "u", "r", "r", "e", "n", "t", " ", "T", "i", "m",
      "e", "s", "t", "a", "m", "p", "s", ":", "\n", "M", "i", "l", "l",
      "i", "s", "e", "c", "o", "n", "d", "s", ":", " ">>
    \o NumToString(now)
    \o <<"\n", "S", "e", "c", "o", "n", "d", "s", ":", " ">>
    \o NumToString(NowInSeconds(now))

\* first offset in lo..hi at which a and b differ, hi + 1 when they agree
RECURSIVE FirstDifference(_, _, _, _)
FirstDifference(a, b, lo, hi) ==
    IF lo > hi THEN lo
    ELSE IF lo = hi THEN (IF a[lo] = b[lo] THEN lo + 1 ELSE lo)
    ELSE LET mid == (lo + hi) \div 2
         IN  IF SubSeq(a, lo, mid) = SubSeq(b, lo, mid)
             THEN FirstDifference(a, b, mid + 1, hi)
             ELSE FirstDifference(a, b, lo, mid)

\* length of the longest common prefix of a and b
CommonPrefix(a, b) == FirstDifference(a, b, 1, Min(Len(a), Len(b))) - 1

Reverse(s) == [i \in 1..Len(s) |-> s[Len(s) + 1 - i]]

\* length of the longest common suffix of a and b that leaves the first p
\* characters of both
CommonSuffix(a, b, p) ==
    Min(CommonPrefix(Reverse(a), Reverse(b)), Min(Len(a), Len(b)) - p)

\* the tokens with a text, in order
NonEmptyTokens(ds) == SelectSeq(ds, LAMBDA tok : tok[2] # <<>>)

\* Answers of the diff primitive on the texts of the application, which
\* are too long to enumerate every token sequence: the common prefix and
\* suffix kept and the middle replaced, or everything replaced.
diff_outcomes(text1, text2) ==
    IF text1 = text2 THEN diff_main(text1, text2)
    ELSE LET p == CommonPrefix(text1, text2)
             s == CommonSuffix(text1, text2, p)
         IN  { NonEmptyTokens(
                   <<Tok(DIFF_EQUAL, SubSeq(text1, 1, p)),
                     Tok(DIFF_DELETE, SubSeq(text1, p + 1, Len(text1) - s)),
                     Tok(DIFF_INSERT, SubSeq(text2, p + 1, Len(text2) - s)),
                     Tok(DIFF_EQUAL, SubSeq(text1, Len(text1) - s + 1, Len(text1)))>>),
               NonEmptyTokens(<<Tok(DIFF_DELETE, text1),
                                Tok(DIFF_INSERT, text2)>>) }

Init ==
    /\ storage \in Stores
    /\ loaded = JsonOfState(DefaultState)
    /\ inputText = DefaultState.inputText
    /\ selectedTimezone = DefaultState.selectedTimezone
    /\ replaceTimestamp = DefaultState.replaceTimestamp
    /\ useJavaFormat = DefaultState.useJavaFormat
    /\ hostOffset \in HostOffsets
    /\ result = NoResult
    /\ rerun = NoResult
    /\ oldText = <<>>
    /\ newText = <<>>
    /\ diffs = <<>>
    /\ edits = <<>>
    /\ buffer = <<>>
    /\ applyEditsCalls = 0
    /\ highlightRanges = <<>>
    /\ queued = NoUpdate
    /\ rangesQueued = FALSE
    /\ mounted = FALSE
    /\ decorations = NoDecorations
    /\ events = 0
    /\ pc = "boot"

\* useState(loadStateFromStorage) and the first render, whose effects find
\* no output editor.  A loaded value that is no AppState is not followed
\* further.
Load ==
    /\ pc = "boot"
    /\ \E v \in {loadStateFromStorage(storage)} :
           /\ loaded' = v
           /\ IF IsAppState(v)
              THEN /\ inputText' = v.inputText.v
                   /\ replaceTimestamp' = v.replaceTimestamp.v
                   /\ useJavaFormat' = v.useJavaFormat.v
                   /\ selectedTimezone' = v.selectedTimezone.v
                   /\ pc' = "running"
              ELSE /\ UNCHANGED <<inputText, replaceTimestamp, useJavaFormat,
                                  selectedTimezone>>
                   /\ pc' = "malformed"
    /\ UNCHANGED <<hostOffset, result, rerun, oldText, newText, diffs, edits,
                   buffer, applyEditsCalls, highlightRanges, storage, queued,
                   rangesQueued, mounted, decorations, events>>

\* the component is rendered and no effect has thrown
AppLive == pc \in {"running", "updated"}

\* setAppState(st) from a handler of the latest render
setAppState(st) ==
    /\ AppLive
    /\ events < MaxEvents
    /\ queued' = [set |-> TRUE, state |-> st]
    /\ events' = events + 1
    /\ UNCHANGED <<inputText, selectedTimezone, replaceTimestamp,
                   useJavaFormat, hostOffset, result, rerun, oldText, newText,
                   diffs, edits, buffer, applyEditsCalls, highlightRanges, pc,
                   storage, loaded, rangesQueued, mounted, decorations>>

\* onChange of the input editor
InputChange ==
    \E value \in TypedTexts :
        setAppState([AppState EXCEPT !.inputText = value])

handleClear == setAppState([AppState EXCEPT !.inputText = <<>>])

handleInsertCurrentTimestamp ==
    \E now \in Nows :
        setAppState([AppState EXCEPT !.inputText = @ \o InsertedText(now)])

\* onClick of a timezone button
SelectTimezone ==
    \E timezone \in Timezones :
        setAppState([AppState EXCEPT !.selectedTimezone = timezone])

\* onChange of the two checkboxes; e.target.checked is the opposite of the
\* value the checkbox was rendered with
ToggleReplaceTimestamp ==
    setAppState([AppState EXCEPT !.replaceTimestamp = ~replaceTimestamp])

ToggleUseJavaFormat ==
    setAppState([AppState EXCEPT !.useJavaFormat = ~useJavaFormat])

\* updateOutput as called with the appState st, the output editor set
UpdateOutputOf(st) ==
    \E res \in {convertTimestamps(st.inputText, CfgOf(st))} :
    \E ds \in diff_outcomes(buffer, res.text) :
        UpdateOutputWith(res, ds)

\* mutant: the effect does nothing when there are no ranges
DecorationsEffectSkipsEmpty(current, ranges) ==
    IF Len(ranges) = 0 THEN current
    ELSE IF current.created
    THEN [current EXCEPT !.ranges = ranges, !.moved = FALSE]
    ELSE [created |-> TRUE, moved |-> FALSE, ranges |-> ranges]

\* the decorations effect with the output editor set: the collection's
\* set(decorations) when there is a collection, createDecorationsCollection
\* otherwise
DecorationsEffect(current, ranges) ==
    IF current.created
    THEN [current EXCEPT !.ranges = ranges, !.moved = FALSE]
    ELSE [created |-> TRUE, moved |-> FALSE, ranges |-> ranges]

\* A render with the queued state, and its effects in order: updateOutput
\* when one of the four fields changed, then the decorations effect when
\* highlightRanges changed.  applyEdits moves the decorations the buffer
\* holds; the decorations effect replaces them.
Render ==
    /\ AppLive
    /\ queued.set \/ rangesQueued
    /\ LET next == IF queued.set THEN queued.state ELSE AppState
       IN  /\ inputText' = next.inputText
           /\ selectedTimezone' = next.selectedTimezone
           /\ replaceTimestamp' = next.replaceTimestamp
           /\ useJavaFormat' = next.useJavaFormat
           /\ queued' = NoUpdate
           /\ IF next # AppState /\ mounted
              THEN /\ UpdateOutputOf(next)
                   /\ rangesQueued' = TRUE
              ELSE /\ UNCHANGED <<result, oldText, newText, diffs, edits,
                                  buffer, applyEditsCalls, highlightRanges, pc>>
                   /\ rangesQueued' = FALSE
           /\ decorations' =
                  IF rangesQueued /\ mounted
                  THEN DecorationsEffect(decorations, highlightRanges)
                  ELSE IF buffer' # buffer /\ decorations.ranges # <<>>
                  THEN [decorations EXCEPT !.moved = TRUE]
                  ELSE decorations
    /\ UNCHANGED <<hostOffset, rerun, storage, loaded, mounted, events>>

\* onMount of the output editor.  The handler is the one of the first
\* render or of the latest render, as the editor component kept it; its
\* closure holds that render's appState and highlightRanges.
handleEditorDidMount ==
    /\ AppLive
    /\ ~mounted
    /\ mounted' = TRUE
    /\ \E closure \in {StateOfJson(loaded), AppState} : UpdateOutputOf(closure)
    /\ decorations' =
           IF Len(highlightRanges) > 0
           THEN [created |-> TRUE, moved |-> buffer' # buffer,
                 ranges |-> highlightRanges]
           ELSE decorations
    /\ rangesQueued' = TRUE
    /\ UNCHANGED <<inputText, selectedTimezone, replaceTimestamp,
                   useJavaFormat, hostOffset, rerun, storage, loaded, queued,
                   events>>

Next ==
    \/ Load
    \/ InputChange
    \/ handleClear
    \/ handleInsertCurrentTimestamp
    \/ SelectTimezone
    \/ ToggleReplaceTimestamp
    \/ ToggleUseJavaFormat
    \/ Render
    \/ handleEditorDidMount

Spec == Init /\ [][Next]_vars


----------------------------------------------------------------------------
(* Candidates of the scan of inputText, as the claims speak of them *)

\* the candidates in ascending order of their source offset
Cands == orderBy(Matches(inputText))

\* the instant of a candidate, in epoch milliseconds
Instant(m) ==
    IF m.processor = "ms" THEN ParseInt(m.match)
    ELSE Times1000(ParseInt(m.match))

\* a real date whose calendar year lies in [MinYear, MaxYear]
InRange(m) ==
    /\ IsValidDate(Instant(m))
    /\ GetFullYear(Instant(m), hostOffset) \in MinYear..MaxYear

FormattedDate(m) ==
    IF useJavaFormat THEN formatJava(Instant(m), hostOffset, selectedTimezone)
    ELSE formatTimestamp(Instant(m), hostOffset, selectedTimezone)

Bracketed(m) == <<"[">> \o FormattedDate(m) \o <<"]">>

\* the text the scan computes for a candidate
Repl(m) == Process(m, Cfg)

IsReplaced(m) == Repl(m) # m.match

\* the candidates whose text was replaced, in ascending order
ReplacedCands == SelectSeq(Cands, IsReplaced)

\* cumulative length difference of the replacements before the k-th of cs
RECURSIVE ShiftBefore(_, _)
ShiftBefore(cs, k) ==
    IF k <= 1 THEN 0
    ELSE ShiftBefore(cs, k - 1)
         + (IF IsReplaced(cs[k - 1])
            THEN Len(Repl(cs[k - 1])) - Len(cs[k - 1].match) ELSE 0)

\* offset in the result text at which the text of the k-th of cs begins
PosInResult(cs, k) == cs[k].index + ShiftBefore(cs, k)

\* a maximal run of digits of length n starts at offset p
DigitRunAt(text, p, n) ==
    /\ p + n <= Len(text)
    /\ \A i \in 1..n : IsDigit(text[p + i])
    /\ p = 0 \/ ~IsDigit(text[p])
    /\ p + n = Len(text) \/ ~IsDigit(text[p + n + 1])

HasDigitRun(text, n) == \E p \in 0..Len(text) : DigitRunAt(text, p, n)

Converted == pc = "converted"

----------------------------------------------------------------------------
(* Claims about convertTimestamps (SpecScan) *)

\* C2: every candidate whose instant is no real date or whose year is
\* outside [1975, 2050] keeps its original digits at its position in the
\* result text, and no highlight range is emitted for it.
C2_InvalidCandidateUnchanged ==
    Converted =>
        LET cs == Cands
        IN  \A k \in 1..Len(cs) :
                ~InRange(cs[k]) =>
                    LET pos == PosInResult(cs, k)
                    IN  /\ DigitRunAt(result.text, pos, Len(cs[k].match))
                        /\ Substring(result.text, pos, pos + Len(cs[k].match))
                               = cs[k].match
                        /\ \A i \in 1..Len(result.ranges) :
                               result.ranges[i].start # pos

\* C3: the replacement of every valid candidate is the formatted date alone
\* when replaceTimestamp is set, and otherwise the candidate's original
\* digits, a space and the bracketed formatted date.
C3_ReplacementKeepsOriginalDigits ==
    Converted =>
        LET cs == Cands
        IN  \A k \in 1..Len(cs) :
                InRange(cs[k]) =>
                    LET expected ==
                            IF replaceTimestamp THEN FormattedDate(cs[k])
                            ELSE cs[k].match \o <<" ">> \o Bracketed(cs[k])
                        pos == PosInResult(cs, k)
                    IN  Substring(result.text, pos, pos + Len(expected)) = expected

\* C4: a text without a digit run of length 10 or 13 is returned unchanged,
\* with no ranges.
C4_NoCandidateIdentity ==
    (Converted /\ ~HasDigitRun(inputText, SecDigits)
               /\ ~HasDigitRun(inputText, MsDigits))
        => (result.text = inputText /\ result.ranges = <<>>)

C4_Witness ==
    /\ pc = "converted"
    /\ ~HasDigitRun(inputText, SecDigits)
    /\ ~HasDigitRun(inputText, MsDigits)
    /\ HasDigitRun(inputText, 11)
    /\ result.text = inputText

\* C5: the ranges are ascending by start, pairwise disjoint, inside the
\* result text, and there is one range per replaced candidate.
C5_RangesSortedDisjoint ==
    Converted =>
        LET cs == Cands
        IN  /\ \A i \in 1..Len(result.ranges) :
                   /\ 0 <= result.ranges[i].start
                   /\ result.ranges[i].start <= result.ranges[i].end
                   /\ result.ranges[i].end <= Len(result.text)
            /\ \A i \in 1..(Len(result.ranges) - 1) :
                   /\ result.ranges[i].start < result.ranges[i + 1].start
                   /\ result.ranges[i].end <= result.ranges[i + 1].start
            /\ Len(result.ranges) = Len(SelectSeq(cs, IsReplaced))
            /\ \A k \in 1..Len(cs) :
                   IsReplaced(cs[k]) =>
                       LET pos == PosInResult(cs, k)
                       IN  Cardinality({ i \in 1..Len(result.ranges) :
                                           result.ranges[i].start = pos }) = 1

C5_Witness ==
    /\ pc = "converted"
    /\ Len(result.ranges) = 2
    /\ result.ranges[1].end - result.ranges[1].start # Len(Cands[1].match)
    /\ Len(Cands) = 2
    /\ result.ranges[2].start > Cands[2].index

\* C6: the i-th range starts at its candidate's source offset plus the
\* length difference of the earlier replacements, is as long as the
\* replacement, and the result text between its ends is the replacement.
C6_RangeLocatesReplacement ==
    Converted =>
        LET rc == ReplacedCands
        IN  \A i \in 1..Len(result.ranges) :
                /\ i <= Len(rc)
                /\ result.ranges[i].start = PosInResult(rc, i)
                /\ result.ranges[i].end =
                       result.ranges[i].start + Len(Repl(rc[i]))
                /\ Substring(result.text, result.ranges[i].start,
                             result.ranges[i].end) = Repl(rc[i])

C6_Witness ==
    /\ pc = "converted"
    /\ Len(result.ranges) = 2
    /\ result.ranges[2].start # ReplacedCands[2].index
    /\ ReplacedCands[2].processor = "s"

IsValidMs(m) == m.processor = "ms" /\ InRange(m)

\* C7 as stated: with replaceTimestamp unset, the range of a valid 13-digit
\* candidate spans exactly the bracketed date, without the digits in front.
C7_RangeIsBracketedDateOnly ==
    (Converted /\ ~replaceTimestamp) =>
        LET rc == ReplacedCands
        IN  \A i \in 1..Len(rc) :
                IsValidMs(rc[i]) =>
                    /\ i <= Len(result.ranges)
                    /\ Substring(result.text, result.ranges[i].start,
                                 result.ranges[i].end) = Bracketed(rc[i])

\* C7 amended: with replaceTimestamp unset, the range of a valid 13-digit
\* candidate starts where the candidate started and spans the whole
\* replacement: the printed number, a space and the bracketed date, which
\* is the last segment of the range.
C7_RangeIsWholeReplacement ==
    (Converted /\ ~replaceTimestamp) =>
        LET rc == ReplacedCands
        IN  \A i \in 1..Len(rc) :
                IsValidMs(rc[i]) =>
                    LET m == rc[i]
                        r == result.ranges[i]
                        b == Bracketed(m)
                    IN  /\ i <= Len(result.ranges)
                        /\ r.start = PosInResult(rc, i)
                        /\ Substring(result.text, r.start, r.end) =
                               NumToString(Instant(m)) \o <<" ">> \o b
                        /\ Substring(result.text, r.end - Len(b), r.end) = b
                        /\ r.end - r.start > Len(b)

C7_Witness ==
    /\ pc = "converted"
    /\ ~replaceTimestamp
    /\ Len(ReplacedCands) = 2
    /\ IsValidMs(ReplacedCands[2])
    /\ Len(result.ranges) = 2

PrintedNumber(m) == NumToString(Instant(m))

\* C8 as stated: with replaceTimestamp unset, a second run over the first
\* run's text does not match the digits in front of a bracketed date
\* again, and returns the first run's text.
C8_RerunLeavesTextUnchanged ==
    (pc = "reconverted" /\ ~replaceTimestamp) =>
        LET rc == ReplacedCands
        IN  /\ \A i \in 1..Len(rc) :
                   InRange(rc[i]) =>
                       /\ ~MatchesAt(result.text, MsDigits, result.ranges[i].start)
                       /\ ~MatchesAt(result.text, SecDigits, result.ranges[i].start)
            /\ rerun.text = result.text

\* C8 amended: with replaceTimestamp unset, the number printed in front of
\* a bracketed date is followed by a space, a word boundary: when it has
\* 13 digits the second run matches it again and replaces it by the same
\* "number [date]" text, so that a second bracketed date follows and the
\* second run's text differs from the first's; a printed number of another
\* length is not matched again.
C8_RerunRematchesPrintedNumber ==
    (pc = "reconverted" /\ ~replaceTimestamp) =>
        LET rc == ReplacedCands
        IN  \A i \in 1..Len(rc) :
                InRange(rc[i]) =>
                    LET m    == rc[i]
                        r    == result.ranges[i]
                        b    == Bracketed(m)
                        repl == PrintedNumber(m) \o <<" ">> \o b
                    IN  IF Len(PrintedNumber(m)) = MsDigits
                        THEN /\ MatchesAt(result.text, MsDigits, r.start)
                             /\ \E j \in 1..Len(rerun.ranges) :
                                    LET rr == rerun.ranges[j]
                                    IN  /\ rr.start >= r.start
                                        /\ Substring(rerun.text, rr.start, rr.end)
                                               = repl
                                        /\ Substring(rerun.text, rr.end,
                                                     rr.end + 1 + Len(b))
                                               = <<" ">> \o b
                             /\ rerun.text # result.text
                             /\ Len(rerun.text) > Len(result.text)
                        ELSE /\ ~MatchesAt(result.text, MsDigits, r.start)
                             /\ ~MatchesAt(result.text, SecDigits, r.start)

C8_Witness ==
    /\ pc = "reconverted"
    /\ ~replaceTimestamp
    /\ Len(ReplacedCands) = 2
    /\ InRange(ReplacedCands[1])
    /\ Len(PrintedNumber(ReplacedCands[1])) # MsDigits
    /\ InRange(ReplacedCands[2])
    /\ ReplacedCands[2].processor = "s"
    /\ Len(rerun.ranges) = 1

----------------------------------------------------------------------------
(* Claims about computeMonacoEdits and the patch step (SpecPatch) *)

Patched == pc # "idle"

EditStart(e) == RangeStart(oldText, e.range)

EditEnd(e) == RangeEnd(oldText, e.range)

\* The batch read against the old text a, offset by offset: at each offset
\* the texts inserted there, then the character unless a range deletes it.
InsertedAt(a, es, p) ==
    Flatten([i \in 1..Len(es) |->
                IF RangeStart(a, es[i].range) = p THEN es[i].text ELSE <<>>])

IsDeleted(a, es, p) ==
    \E i \in 1..Len(es) :
        RangeStart(a, es[i].range) <= p /\ p < RangeEnd(a, es[i].range)

RECURSIVE BatchFrom(_, _, _)
BatchFrom(a, es, p) ==
    IF p > Len(a) THEN <<>>
    ELSE InsertedAt(a, es, p)
         \o (IF p < Len(a) /\ ~IsDeleted(a, es, p) THEN <<a[p + 1]>> ELSE <<>>)
         \o BatchFrom(a, es, p + 1)

\* C1: for every pair of texts and every token sequence of the diff
\* primitive for the pair, the emitted operations, applied as one batch
\* with offsets read against the old text, turn the old text into the new.
C1_PatchRoundTrip ==
    Patched =>
        /\ BatchFrom(oldText, edits, 0) = newText
        /\ applyEdits(oldText, edits) = [ok |-> TRUE, text |-> newText]
        /\ buffer = newText

C1_Witness ==
    /\ pc = "updated"
    /\ Len(edits) = 3
    /\ \E i \in 1..Len(oldText) : oldText[i] = "\n"
    /\ \E i \in 1..Len(edits) : edits[i].range.startLineNumber = 2
    /\ buffer = newText
    /\ oldText # newText

\* C9: equal texts give no edit operations, and the editor's applyEdits is
\* not called.
C9_EqualTextsNoEdits ==
    (Patched /\ oldText = newText) =>
        /\ edits = <<>>
        /\ applyEditsCalls = 0
        /\ buffer = oldText

C9_Witness ==
    /\ pc = "updated"
    /\ oldText = newText
    /\ Len(oldText) >= 2
    /\ diffs # <<>>
    /\ applyEditsCalls = 0

IsChange(tok) == tok[1] # DIFF_EQUAL

\* the Delete and Insert tokens, in token order
Changes == SelectSeq(diffs, IsChange)

\* C10: the operations are in token order and strictly ascending by range
\* start, except that a Delete and the Insert right after it may start at
\* the same offset.
C10_EditsInTokenOrderAscending ==
    Patched =>
        /\ Len(edits) = Len(Changes)
        /\ \A i \in 1..Len(edits) :
               IF Changes[i][1] = DIFF_DELETE
               THEN /\ edits[i].text = <<>>
                    /\ EditEnd(edits[i]) - EditStart(edits[i]) = Len(Changes[i][2])
               ELSE /\ edits[i].text = Changes[i][2]
                    /\ EditEnd(edits[i]) = EditStart(edits[i])
        /\ \A i \in 1..(Len(edits) - 1) :
               \/ EditStart(edits[i]) < EditStart(edits[i + 1])
               \/ /\ EditStart(edits[i]) = EditStart(edits[i + 1])
                  /\ Changes[i][1] = DIFF_DELETE
                  /\ Changes[i + 1][1] = DIFF_INSERT

C10_Witness ==
    /\ pc = "updated"
    /\ Len(edits) = 3
    /\ Changes[1][1] = DIFF_DELETE
    /\ Changes[2][1] = DIFF_INSERT
    /\ EditStart(edits[1]) < EditStart(edits[2])
    /\ EditStart(edits[2]) < EditStart(edits[3])

\* C11: every emitted operation lies inside the old text, with its start
\* not after its end, and no operation reaches past the start of a later
\* one, so the editor accepts the sequence as one batch against the old
\* text (applyEdits does not throw on overlapping ranges).
C11_EditsInBoundsDisjoint ==
    Patched =>
        /\ \A i \in 1..Len(edits) :
               /\ 0 <= EditStart(edits[i])
               /\ EditStart(edits[i]) <= EditEnd(edits[i])
               /\ EditEnd(edits[i]) <= Len(oldText)
        /\ \A i \in 1..Len(edits) : \A j \in (i + 1)..Len(edits) :
               EditEnd(edits[i]) <= EditStart(edits[j])
        /\ ~HasOverlap(oldText, SortOpsAscending(oldText, edits))
        /\ pc # "threw"

C11_Witness ==
    /\ pc = "updated"
    /\ Len(edits) >= 2
    /\ \E i \in 1..(Len(edits) - 1) :
           /\ EditEnd(edits[i]) - EditStart(edits[i]) >= 2
           /\ EditStart(edits[i + 1]) = EditEnd(edits[i])
    /\ EditEnd(edits[Len(edits)]) = Len(oldText)

----------------------------------------------------------------------------
(* Claims about the two scans on digit runs (SpecRuns) *)

\* cumulative length difference of the replacements of the candidates that
\* start before source offset p
ShiftAt(cs, p) ==
    ShiftBefore(cs, Cardinality({k \in 1..Len(cs) : cs[k].index < p}) + 1)

\* C12: every candidate of either scan is a whole maximal digit run of
\* length 13 (millisecond scan) or 10 (second scan), so no candidate lies
\* inside a run of another length and no two candidates overlap; and every
\* maximal digit run of another length stands unchanged in the result
\* text, at its shifted position, outside every highlight range.
C12_OtherRunsNeverMatched ==
    Converted =>
        LET cs == Cands
        IN  /\ \A k \in 1..Len(cs) :
                   /\ Len(cs[k].match) =
                          (IF cs[k].processor = "ms" THEN MsDigits ELSE SecDigits)
                   /\ DigitRunAt(inputText, cs[k].index, Len(cs[k].match))
            /\ \A j \in 1..Len(cs) : \A k \in (j + 1)..Len(cs) :
                   cs[j].index + Len(cs[j].match) <= cs[k].index
            /\ \A p \in 0..Len(inputText) : \A n \in 1..(Len(inputText) - p) :
                   (DigitRunAt(inputText, p, n) /\ n \notin {SecDigits, MsDigits}) =>
                       LET q == p + ShiftAt(cs, p)
                       IN  /\ Substring(result.text, q, q + n)
                              = Substring(inputText, p, p + n)
                           /\ \A r \in 1..Len(result.ranges) :
                                  \/ result.ranges[r].end <= q
                                  \/ result.ranges[r].start >= q + n

C12_Witness ==
    /\ Converted
    /\ Len(result.ranges) = 1
    /\ result.ranges[1].start = 0
    /\ \E n \in {11, 12, 14} : \E p \in 1..Len(inputText) :
           DigitRunAt(inputText, p, n)

----------------------------------------------------------------------------
(* Frame of the rewrite (SpecScan) *)

\* the source text from offset from on, with the spans of the candidates
\* cs[k], cs[k+1], ... replaced by the texts rs[k], rs[k+1], ...
RECURSIVE Rebuild(_, _, _, _, _)
Rebuild(text, cs, rs, k, from) ==
    IF k > Len(cs) THEN SubstringFrom(text, from)
    ELSE Substring(text, from, cs[k].index) \o rs[k]
         \o Rebuild(text, cs, rs, k + 1, cs[k].index + Len(cs[k].match))

\* sum of the length differences rs[k] - cs[k].match over k <= n
RECURSIVE LengthGain(_, _, _)
LengthGain(cs, rs, n) ==
    IF n = 0 THEN 0
    ELSE LengthGain(cs, rs, n - 1) + Len(rs[n]) - Len(cs[n].match)

\* C15: the result text is the source text with the span of every replaced
\* candidate substituted by its replacement and every character outside
\* those spans kept in order; its length is the source length plus the sum
\* of the length differences of the replacements.
C15_RewriteFrame ==
    Converted =>
        LET cs == Cands
            rs == [k \in 1..Len(cs) |-> Repl(cs[k])]
        IN  /\ result.text = Rebuild(inputText, cs, rs, 1, 0)
            /\ Len(result.text) = Len(inputText) + LengthGain(cs, rs, Len(cs))

C15_Witness ==
    /\ Converted
    /\ Len(result.ranges) = 2
    /\ Len(Cands) = 2
    /\ result.ranges[2].start > result.ranges[1].end
    /\ Len(result.text) > Len(inputText)

----------------------------------------------------------------------------
(* A failing candidate does not end the scan (SpecScan) *)

\* the text a valid candidate is to be replaced by
ExpectedText(m) ==
    IF replaceTimestamp THEN FormattedDate(m)
    ELSE PrintedNumber(m) \o <<" ">> \o Bracketed(m)

\* C16: in a text with a candidate whose year is out of range, every valid
\* candidate, before or after it, is converted: its formatted text stands
\* in the result at its shifted position and a highlight range spans it.
C16_FailureDoesNotAbortScan ==
    Converted =>
        LET cs == Cands
        IN  (\E f \in 1..Len(cs) : ~InRange(cs[f])) =>
                \A k \in 1..Len(cs) :
                    InRange(cs[k]) =>
                        LET q   == PosInResult(cs, k)
                            exp == ExpectedText(cs[k])
                        IN  /\ Substring(result.text, q, q + Len(exp)) = exp
                            /\ \E r \in 1..Len(result.ranges) :
                                   result.ranges[r] =
                                       [start |-> q, end |-> q + Len(exp)]

C16_Witness ==
    /\ Converted
    /\ Len(Cands) = 2
    /\ ~InRange(Cands[1])
    /\ Repl(Cands[1]) = Cands[1].match
    /\ InRange(Cands[2])
    /\ Len(result.ranges) = 1
    /\ result.ranges[1].start = Cands[2].index

----------------------------------------------------------------------------
(* Claims about the App component (Spec) *)

\* loadStateFromStorage has returned
Loaded == pc # "boot"

\* nothing in the store can be read as an application state
Unusable(store) ==
    \/ store.readThrows
    \/ store.item.kind \in {"absent", "empty", "malformed"}
    \/ store.item.kind = "json" /\ ~IsAppState(store.item.value)

\* C14: loadStateFromStorage returns the default state when the read
\* throws, the key is absent or the stored string cannot be deserialized
\* into an application state, so the loaded value always is an application
\* state: four fields of the right types, the time zone a supported one.
C14_LoadFallsBackToDefault ==
    Loaded =>
        /\ Unusable(storage) => loaded = JsonOfState(DefaultState)
        /\ IsAppState(loaded)

\* the output editor is mounted and every setAppState has been rendered,
\* its effects run
UpdateHasRun == AppLive /\ mounted /\ ~queued.set

\* C13: once the output editor is mounted and the update for the latest
\* change has run, the output buffer holds the conversion of the current
\* input text under the current configuration.
C13_BufferShowsConversion ==
    UpdateHasRun => buffer = convertTimestamps(inputText, Cfg).text

\* every update has completed: nothing is waiting for a render
Settled == UpdateHasRun /\ ~rangesQueued

LatestState == IF queued.set THEN queued.state ELSE AppState

ChangedFields(a, b) ==
    {f \in {"inputText", "replaceTimestamp", "useJavaFormat",
            "selectedTimezone"} : a[f] # b[f]}

\* C18: every handler changes only its own field of the application state
\* and leaves the other fields at their most recent values, also when an
\* earlier event's change still waits for its render: a handler step
\* changes at most one field of the latest state.
C18_HandlerChangesOwnFieldOnly ==
    [][events' = events + 1 =>
         Cardinality(ChangedFields(LatestState, LatestState')) <= 1]_vars

====
